---- MODULE Spec2Model ----
(***************************************************************************)
(* The route layer of the code review checker (src/app.py): the four      *)
(* Flask handlers registered by create_app -- index, pr_detail, add_reply  *)
(* and health -- and the calls they make on the GitHub API client.         *)
(*                                                                         *)
(* A request is handled by one action.  The handler itself is an operator  *)
(* that follows the code statement by statement: the try block first, then *)
(* the except clauses in the order the code lists them.  Every call on the *)
(* GitHub client is written to a call log together with the line of the    *)
(* call site, its arguments and its outcome.                               *)
(*                                                                         *)
(* Python values are records tagged by their type (field py), so that      *)
(* truthiness, dict.get, str.strip and str.lower are computed as Python    *)
(* computes them.  A str is a sequence of chunks; where the characters     *)
(* matter (strip, lower) every chunk is one character.                     *)
(***************************************************************************)
EXTENDS Integers, Sequences, FiniteSets, TLC

\* ------------------------------------------------------------------ bounds
\* Requests handled in one run of the app.
MaxRequests == 2
\* Length of the body field of the reply form, in characters.
MaxLen == 1

\* ----------------------------------------------------------- Python values
PyNone == [py |-> "None"]
Str(s) == [py |-> "str", s |-> s]
PyDict(d) == [py |-> "dict", d |-> d]
PyList(l) == [py |-> "list", l |-> l]
\* markupsafe.Markup is a str subclass
Markup(v) == [py |-> "Markup", s |-> v.s]
EmptyDict == PyDict([k \in {} |-> PyNone])

\* bool(v), as `not v` and `if v` use it
truthy(v) ==
    CASE v.py = "None" -> FALSE
      [] v.py \in {"str", "Markup"} -> v.s # <<>>
      [] v.py = "dict" -> DOMAIN v.d # {}
      [] v.py = "list" -> v.l # <<>>

\* d.get(key, default) of a dict (request.args, request.form, a JSON object)
dict_get(v, key, default) ==
    IF key \in DOMAIN v.d THEN v.d[key] ELSE default

\* d[key] = value
dict_set(v, key, value) ==
    PyDict([k \in DOMAIN v.d \cup {key} |-> IF k = key THEN value ELSE v.d[k]])

\* str.isspace for one character
Whitespace == {" ", "\t", "\n", "\r"}

RECURSIVE lstrip(_)
lstrip(s) ==
    IF s # <<>> /\ Head(s) \in Whitespace THEN lstrip(Tail(s)) ELSE s

RECURSIVE rstrip(_)
rstrip(s) ==
    IF s # <<>> /\ s[Len(s)] \in Whitespace
    THEN rstrip(SubSeq(s, 1, Len(s) - 1))
    ELSE s

\* str.strip()
strip(v) == Str(rstrip(lstrip(v.s)))

lower_char(c) ==
    CASE c = "T" -> "t"
      [] c = "R" -> "r"
      [] c = "U" -> "u"
      [] c = "E" -> "e"
      [] c = "F" -> "f"
      [] c = "A" -> "a"
      [] c = "L" -> "l"
      [] c = "S" -> "s"
      [] OTHER -> c

\* str.lower()
lower(v) == Str([i \in 1..Len(v.s) |-> lower_char(v.s[i])])

\* ------------------------------------------------------------- exceptions
Exc(type, msg) == [type |-> type, msg |-> msg]
\* `except GitHubAPIError as e` matches
is_GitHubAPIError(e) == e.type = "GitHubAPIError"
\* str(e)
str_exc(e) == e.msg

\* ------------------------------------------------------- the GitHub client
Methods ==
    {"get_repo_info", "get_my_pr_list", "get_comments_for_pr", "add_reply_to_comment"}

Returned(value) == [raised |-> FALSE, value |-> value, exc |-> Exc("", <<>>)]
Raised(e) == [raised |-> TRUE, value |-> PyNone, exc |-> e]

\* What a client call can raise: the client's own error, or anything else.
ClientErrors ==
    { Exc("GitHubAPIError", <<"gh: not logged in">>),
      Exc("RuntimeError", <<"boom">>) }

GoodRepo == PyDict([owner |-> Str(<<"octo">>), name |-> Str(<<"demo">>)])

RepoOutcomes ==
    {Returned(GoodRepo), Returned(EmptyDict)} \cup {Raised(e) : e \in ClientErrors}

ListOutcomes ==
    { Returned(PyList(<<>>)),
      Returned(PyList(<<PyDict([number |-> 1, title |-> Str(<<"fix">>)])>>)) }
    \cup {Raised(e) : e \in ClientErrors}

ReplyDict == PyDict([bodyHTML |-> Str(<<"<p>ok</p>">>)])
CommentFull ==
    PyDict([ bodyHTML |-> Str(<<"<p>hi</p>">>),
             replies |-> PyList(<<ReplyDict, PyDict([id |-> 9])>>) ])
CommentBare == PyDict([id |-> 7])

CommentsOutcomes ==
    { Returned(PyNone),
      Returned(EmptyDict),
      Returned(PyDict([number |-> 1, comments |-> PyList(<<CommentFull, CommentBare>>)])),
      Returned(PyList(<<CommentBare>>)) }
    \cup {Raised(e) : e \in ClientErrors}

ReplyOutcomes ==
    {Returned(PyNone), Returned(PyDict([id |-> 9]))} \cup {Raised(e) : e \in ClientErrors}

NotCalled == Returned(PyNone)
\* GitHub as a health check may find it: answering, or failing every call
HealthOutcomes == {NotCalled} \cup {Raised(e) : e \in ClientErrors}

\* The outcomes the client has in store for one request, one per method.
GitHub(repo, list, comments, reply) ==
    [ get_repo_info |-> repo,
      get_my_pr_list |-> list,
      get_comments_for_pr |-> comments,
      add_reply_to_comment |-> reply ]

\* github_api.<method>(<args>) at source line `line`
Call(gh, method, line, args) ==
    [method |-> method, line |-> line, args |-> args, outcome |-> gh[method]]

\* ------------------------------------------------------------ the handlers
\* The literal texts of src/app.py, romanised (the module is ASCII):
\* "GitHub 연결 오류"
TITLE_GITHUB == <<"GitHub yeongyeol oryu">>
\* "오류 발생"
TITLE_GENERIC == <<"oryu balsaeng">>
\* "예상치 못한 오류가 발생했습니다: "
PREFIX_GENERIC == <<"yesangchi mothan oryuga balsaenghaessseubnida: ">>
\* "PR을 찾을 수 없습니다"
TITLE_NOT_FOUND == <<"PReul chajeul su eopsseubnida">>
\* f"PR #{pr_number}을(를) 찾을 수 없습니다."
not_found_message(pr_number) ==
    <<"PR #", ToString(pr_number), "eul(reul) chajeul su eopsseubnida.">>
\* "comment_id와 body가 필요합니다."
ERROR_FORM == <<"comment_idwa bodyga piryohabnida.">>
\* "예상치 못한 오류: "
PREFIX_REPLY == <<"yesangchi mothan oryu: ">>

\* render_template(template, **context), with the status returned beside it
render_template(template, context, status) ==
    [status |-> status, template |-> template, data |-> context]

\* a dict returned by a view: Flask answers it as JSON
json_response(data, status) ==
    [status |-> status, template |-> "json", data |-> data]

\* The result of a try block: it returned a response, or an exception left it.
Return(response, calls) ==
    [raised |-> FALSE, response |-> response, exc |-> Exc("", <<>>), calls |-> calls]
Raise(e, calls) ==
    [raised |-> TRUE, response |-> json_response(PyNone, 0), exc |-> e, calls |-> calls]

\* repo[key]: KeyError when the key is missing
has_key(v, key) == v.py = "dict" /\ key \in DOMAIN v.d
KeyError(key) == Exc("KeyError", <<"'", key, "'">>)

\* error.html, as every handler renders it
error_page(title, message, cfg, status) ==
    render_template("error.html",
        [error_title |-> title, error_message |-> message, config |-> cfg], status)

\* ---- index, lines 63-102
index_try(req, gh, cfg) ==
    LET state == dict_get(req.args, "state", cfg.DEFAULT_PR_STATE)
        c1 == Call(gh, "get_repo_info", 71, <<>>)
        repo == c1.outcome.value
        c2 == Call(gh, "get_my_pr_list", 76, [state |-> state])
    IN  IF c1.outcome.raised THEN Raise(c1.outcome.exc, <<c1>>)
        ELSE IF ~has_key(repo, "owner") THEN Raise(KeyError("owner"), <<c1>>)
        ELSE IF ~has_key(repo, "name") THEN Raise(KeyError("name"), <<c1>>)
        ELSE IF c2.outcome.raised THEN Raise(c2.outcome.exc, <<c1, c2>>)
        ELSE Return(
                render_template("index.html",
                    [ prs |-> c2.outcome.value,
                      owner |-> repo.d.owner,
                      name |-> repo.d.name,
                      state |-> state,
                      config |-> cfg ], 200),
                <<c1, c2>>)

\* page_except with the clauses in the wrong order: `except Exception` first
\* catches every exception, GitHubAPIError included
page_except_generic_first(t, cfg) ==
    error_page(TITLE_GENERIC, PREFIX_GENERIC \o str_exc(t.exc), cfg, 500)

\* the except clauses of index and of pr_detail (lines 87-102, 152-165)
page_except(t, cfg) ==
    IF is_GitHubAPIError(t.exc)
    THEN error_page(TITLE_GITHUB, str_exc(t.exc), cfg, 500)
    ELSE error_page(TITLE_GENERIC, PREFIX_GENERIC \o str_exc(t.exc), cfg, 500)

index(req, gh, cfg) ==
    LET t == index_try(req, gh, cfg)
    IN  [ response |-> IF t.raised THEN page_except(t, cfg) ELSE t.response,
          calls |-> t.calls ]

\* ---- pr_detail, lines 104-165
\* request.args.get(key, "false").lower() == "true"
flag(req, key) ==
    lower(dict_get(req.args, key, Str(<<"f", "a", "l", "s", "e">>)))
        = Str(<<"t", "r", "u", "e">>)

\* lines 138-140
wrap_reply(reply) ==
    LET body == dict_get(reply, "bodyHTML", PyNone)
    IN  IF truthy(body) THEN dict_set(reply, "bodyHTML", Markup(body)) ELSE reply

\* lines 132-140
wrap_comment(comment) ==
    LET body == dict_get(comment, "bodyHTML", PyNone)
        safe == IF truthy(body) THEN Markup(body) ELSE Markup(Str(<<>>))
        c == dict_set(comment, "bodyHTML_safe", safe)
        replies == dict_get(comment, "replies", PyNone)
    IN  IF truthy(replies)
        THEN dict_set(c, "replies",
                PyList([i \in 1..Len(replies.l) |-> wrap_reply(replies.l[i])]))
        ELSE c

\* lines 129-140: pr_data after the loop over its comments
wrap_comments(pr_data) ==
    LET comments == dict_get(pr_data, "comments", PyList(<<>>))
    IN  IF truthy(comments)
        THEN dict_set(pr_data, "comments",
                PyList([i \in 1..Len(comments.l) |-> wrap_comment(comments.l[i])]))
        ELSE pr_data

\* pr_detail_try testing `pr_data is None` where the code tests `not pr_data`
pr_detail_try_none_only(req, gh, cfg) ==
    LET include_resolved == flag(req, "include_resolved")
        compact_mode == flag(req, "compact_mode")
        c1 == Call(gh, "get_repo_info", 111, <<>>)
        repo == c1.outcome.value
        c2 == Call(gh, "get_comments_for_pr", 116,
                [ owner |-> dict_get(repo, "owner", PyNone),
                  name |-> dict_get(repo, "name", PyNone),
                  pr_number |-> req.pr_number,
                  include_resolved |-> include_resolved ])
        pr_data == c2.outcome.value
    IN  IF c1.outcome.raised THEN Raise(c1.outcome.exc, <<c1>>)
        ELSE IF ~has_key(repo, "owner") THEN Raise(KeyError("owner"), <<c1>>)
        ELSE IF ~has_key(repo, "name") THEN Raise(KeyError("name"), <<c1>>)
        ELSE IF c2.outcome.raised THEN Raise(c2.outcome.exc, <<c1, c2>>)
        ELSE IF pr_data.py = "None"
        THEN Return(
                error_page(TITLE_NOT_FOUND, not_found_message(req.pr_number), cfg, 404),
                <<c1, c2>>)
        ELSE IF pr_data.py # "dict"
        THEN Raise(Exc("AttributeError", <<"no attribute 'get'">>), <<c1, c2>>)
        ELSE Return(
                render_template("pr_detail.html",
                    [ pr |-> wrap_comments(pr_data),
                      owner |-> repo.d.owner,
                      name |-> repo.d.name,
                      include_resolved |-> include_resolved,
                      compact_mode |-> compact_mode,
                      config |-> cfg ], 200),
                <<c1, c2>>)

pr_detail_try(req, gh, cfg) ==
    LET include_resolved == flag(req, "include_resolved")
        compact_mode == flag(req, "compact_mode")
        c1 == Call(gh, "get_repo_info", 111, <<>>)
        repo == c1.outcome.value
        c2 == Call(gh, "get_comments_for_pr", 116,
                [ owner |-> dict_get(repo, "owner", PyNone),
                  name |-> dict_get(repo, "name", PyNone),
                  pr_number |-> req.pr_number,
                  include_resolved |-> include_resolved ])
        pr_data == c2.outcome.value
    IN  IF c1.outcome.raised THEN Raise(c1.outcome.exc, <<c1>>)
        ELSE IF ~has_key(repo, "owner") THEN Raise(KeyError("owner"), <<c1>>)
        ELSE IF ~has_key(repo, "name") THEN Raise(KeyError("name"), <<c1>>)
        ELSE IF c2.outcome.raised THEN Raise(c2.outcome.exc, <<c1, c2>>)
        ELSE IF ~truthy(pr_data)
        THEN Return(
                error_page(TITLE_NOT_FOUND, not_found_message(req.pr_number), cfg, 404),
                <<c1, c2>>)
        ELSE IF pr_data.py # "dict"
        THEN Raise(Exc("AttributeError", <<"no attribute 'get'">>), <<c1, c2>>)
        ELSE Return(
                render_template("pr_detail.html",
                    [ pr |-> wrap_comments(pr_data),
                      owner |-> repo.d.owner,
                      name |-> repo.d.name,
                      include_resolved |-> include_resolved,
                      compact_mode |-> compact_mode,
                      config |-> cfg ], 200),
                <<c1, c2>>)

pr_detail(req, gh, cfg) ==
    LET t == pr_detail_try(req, gh, cfg)
    IN  [ response |-> IF t.raised THEN page_except(t, cfg) ELSE t.response,
          calls |-> t.calls ]

\* ---- add_reply, lines 167-196
\* form_rejected with `and` where the code has `or`
form_rejected_both(comment_id, body) == ~truthy(comment_id) /\ ~truthy(body)

\* line 179: not comment_id or not body
form_rejected(comment_id, body) == ~truthy(comment_id) \/ ~truthy(body)

\* add_reply_try without the .strip() of line 177 on the body it posts
add_reply_try_unstripped(req, gh) ==
    LET c1 == Call(gh, "get_repo_info", 171, <<>>)
        repo == c1.outcome.value
        comment_id == dict_get(req.form, "comment_id", PyNone)
        raw == dict_get(req.form, "body", Str(<<>>))
        c2 == Call(gh, "add_reply_to_comment", 183,
                [ owner |-> dict_get(repo, "owner", PyNone),
                  name |-> dict_get(repo, "name", PyNone),
                  pr_number |-> req.pr_number,
                  comment_id |-> comment_id,
                  body |-> raw ])
    IN  IF c1.outcome.raised THEN Raise(c1.outcome.exc, <<c1>>)
        ELSE IF ~has_key(repo, "owner") THEN Raise(KeyError("owner"), <<c1>>)
        ELSE IF ~has_key(repo, "name") THEN Raise(KeyError("name"), <<c1>>)
        ELSE IF form_rejected(comment_id, strip(raw))
        THEN Return(json_response([success |-> FALSE, error |-> ERROR_FORM], 400), <<c1>>)
        ELSE IF c2.outcome.raised THEN Raise(c2.outcome.exc, <<c1, c2>>)
        ELSE Return(json_response([success |-> TRUE], 200), <<c1, c2>>)

add_reply_try(req, gh) ==
    LET c1 == Call(gh, "get_repo_info", 171, <<>>)
        repo == c1.outcome.value
        comment_id == dict_get(req.form, "comment_id", PyNone)
        body == strip(dict_get(req.form, "body", Str(<<>>)))
        c2 == Call(gh, "add_reply_to_comment", 183,
                [ owner |-> dict_get(repo, "owner", PyNone),
                  name |-> dict_get(repo, "name", PyNone),
                  pr_number |-> req.pr_number,
                  comment_id |-> comment_id,
                  body |-> body ])
    IN  IF c1.outcome.raised THEN Raise(c1.outcome.exc, <<c1>>)
        ELSE IF ~has_key(repo, "owner") THEN Raise(KeyError("owner"), <<c1>>)
        ELSE IF ~has_key(repo, "name") THEN Raise(KeyError("name"), <<c1>>)
        ELSE IF form_rejected(comment_id, body)
        THEN Return(json_response([success |-> FALSE, error |-> ERROR_FORM], 400), <<c1>>)
        ELSE IF c2.outcome.raised THEN Raise(c2.outcome.exc, <<c1, c2>>)
        ELSE Return(json_response([success |-> TRUE], 200), <<c1, c2>>)

\* lines 193-196
add_reply_except(t) ==
    IF is_GitHubAPIError(t.exc)
    THEN json_response([success |-> FALSE, error |-> str_exc(t.exc)], 500)
    ELSE json_response([success |-> FALSE, error |-> PREFIX_REPLY \o str_exc(t.exc)], 500)

\* add_reply calling add_reply_to_comment a second time after it raised
add_reply_retry(req, gh, cfg) ==
    LET t == add_reply_try(req, gh)
    IN  [ response |-> IF t.raised THEN add_reply_except(t) ELSE t.response,
          calls |-> IF t.raised /\ Len(t.calls) = 2
                    THEN t.calls \o <<t.calls[2]>>
                    ELSE t.calls ]

\* add_reply checking the form before it looks the repository up
add_reply_form_first(req, gh, cfg) ==
    LET t == add_reply_try(req, gh)
        comment_id == dict_get(req.form, "comment_id", PyNone)
        body == strip(dict_get(req.form, "body", Str(<<>>)))
    IN  IF form_rejected(comment_id, body)
        THEN [ response |-> json_response([success |-> FALSE, error |-> ERROR_FORM], 400),
               calls |-> <<>> ]
        ELSE [ response |-> IF t.raised THEN add_reply_except(t) ELSE t.response,
               calls |-> t.calls ]

add_reply(req, gh, cfg) ==
    LET t == add_reply_try(req, gh)
    IN  [ response |-> IF t.raised THEN add_reply_except(t) ELSE t.response,
          calls |-> t.calls ]

\* a health check that asks GitHub for the repository first
health_deep(req, gh, cfg) ==
    LET c1 == Call(gh, "get_repo_info", 201, <<>>)
    IN  [ response |->
              IF c1.outcome.raised
              THEN json_response([status |-> "error", service |-> "code-review-checker"], 500)
              ELSE json_response([status |-> "ok", service |-> "code-review-checker"], 200),
          calls |-> <<c1>> ]

\* ---- health, lines 198-201
health(req, gh, cfg) ==
    [ response |-> json_response(
                      [status |-> "ok", service |-> "code-review-checker"], 200),
      calls |-> <<>> ]

\* --------------------------------------------------------------- requests
PrNumbers == {1, 2}

\* the dicts over the keys `keys` whose value at key k is drawn from values[k]
dicts_over(keys, values) ==
    UNION { {PyDict(d) : d \in {f \in [ks -> UNION {values[k] : k \in keys}] :
                                    \A k \in ks : f[k] \in values[k]}}
            : ks \in SUBSET keys }

TRUE_LOWER == <<"t", "r", "u", "e">>
FlagValues ==
    { Str(TRUE_LOWER),
      Str(<<"T", "R", "U", "E">>),
      Str(<<"f", "a", "l", "s", "e">>),
      Str(<<"1">>) }

\* request.args of GET /
IndexArgs ==
    dicts_over({"state"}, [state |-> {Str(<<"closed">>), Str(<<"all">>)}])

\* request.args of GET /pr/<n>
DetailArgs ==
    dicts_over({"include_resolved"}, [include_resolved |-> FlagValues])
    \cup dicts_over({"compact_mode"}, [compact_mode |-> {Str(TRUE_LOWER)}])
    \cup {PyDict([include_resolved |-> Str(TRUE_LOWER), compact_mode |-> Str(TRUE_LOWER)])}

BodyChars == {" ", "a"}
\* every body of at most MaxLen characters, and three longer ones: a text
\* after a blank, a text padded with whitespace of every kind, and a run of
\* whitespace alone
Bodies ==
    {Str(s) : s \in UNION {[1..n -> BodyChars] : n \in 0..MaxLen}}
    \cup { Str(<<" ", "a">>),
           Str(<<" ", "\t", "o", " ", "k", "\n">>),
           Str(<<"\t", "\r", "\n", " ">>) }
CommentIds == {Str(<<>>), Str(<<"c", "1">>)}

\* request.form of POST /pr/<n>/reply
ReplyForms ==
    dicts_over({"comment_id", "body"}, [comment_id |-> CommentIds, body |-> Bodies])

Request(route, pr_number, args, form) ==
    [route |-> route, pr_number |-> pr_number, args |-> args, form |-> form]

\* ---------------------------------------------------------------- the app
\* Two runs of the same app are kept side by side, so that runs with
\* different request histories can be compared.
Runs == {1, 2}

VARIABLES
    config,     \* the configuration object create_app loads (lines 50, 57)
    request,    \* per run: the request handled last
    calls,      \* per run: the GitHub client calls made while handling it
    response,   \* per run: the response returned for it
    served,     \* per run: how many requests were handled so far
    posted,     \* per run: how many add_reply_to_comment calls GitHub received
    reached     \* per run: how many add_reply requests got to line 183

vars == <<config, request, calls, response, served, posted, reached>>

Configs == {[DEFAULT_PR_STATE |-> Str(<<"open">>)]}

NoRequest == Request("", 0, EmptyDict, EmptyDict)
NoResponse == json_response(PyNone, 0)

Init ==
    /\ config \in Configs
    /\ request = [r \in Runs |-> NoRequest]
    /\ calls = [r \in Runs |-> <<>>]
    /\ response = [r \in Runs |-> NoResponse]
    /\ served = [r \in Runs |-> 0]
    /\ posted = [r \in Runs |-> 0]
    /\ reached = [r \in Runs |-> 0]

count_calls(log, method) ==
    Cardinality({i \in DOMAIN log : log[i].method = method})

\* the counters of run r after a request req was handled with `result`
count_served(r) == [served EXCEPT ![r] = @ + 1]
count_posted(r, result) ==
    [posted EXCEPT ![r] = @ + count_calls(result.calls, "add_reply_to_comment")]
count_reached(r, req, result) ==
    [reached EXCEPT ![r] =
        IF req.route = "add_reply" /\ \E i \in DOMAIN result.calls : result.calls[i].line = 183
        THEN @ + 1
        ELSE @]

\* Index answering from the page it rendered for the run's previous request
Index_cached(r, args, gh) ==
    LET req == Request("index", 0, args, EmptyDict)
        hit == request[r].route = "index" /\ response[r].status = 200
        result == IF hit
                  THEN [response |-> response[r], calls |-> <<>>]
                  ELSE index(req, gh, config)
    IN  /\ served[r] < MaxRequests
        /\ request' = [request EXCEPT ![r] = req]
        /\ calls' = [calls EXCEPT ![r] = result.calls]
        /\ response' = [response EXCEPT ![r] = result.response]
        /\ served' = count_served(r)
        /\ posted' = count_posted(r, result)
        /\ reached' = count_reached(r, req, result)
        /\ UNCHANGED config

\* Flask dispatches each request to its view function and sends what the
\* view returns; the views write no variable of create_app.
Index(r, args, gh) ==
    LET req == Request("index", 0, args, EmptyDict)
        result == index(req, gh, config)
    IN  /\ served[r] < MaxRequests
        /\ request' = [request EXCEPT ![r] = req]
        /\ calls' = [calls EXCEPT ![r] = result.calls]
        /\ response' = [response EXCEPT ![r] = result.response]
        /\ served' = count_served(r)
        /\ posted' = count_posted(r, result)
        /\ reached' = count_reached(r, req, result)
        /\ UNCHANGED config

PrDetail(r, pr_number, args, gh) ==
    LET req == Request("pr_detail", pr_number, args, EmptyDict)
        result == pr_detail(req, gh, config)
    IN  /\ served[r] < MaxRequests
        /\ request' = [request EXCEPT ![r] = req]
        /\ calls' = [calls EXCEPT ![r] = result.calls]
        /\ response' = [response EXCEPT ![r] = result.response]
        /\ served' = count_served(r)
        /\ posted' = count_posted(r, result)
        /\ reached' = count_reached(r, req, result)
        /\ UNCHANGED config

AddReply(r, pr_number, form, gh) ==
    LET req == Request("add_reply", pr_number, EmptyDict, form)
        result == add_reply(req, gh, config)
    IN  /\ served[r] < MaxRequests
        /\ request' = [request EXCEPT ![r] = req]
        /\ calls' = [calls EXCEPT ![r] = result.calls]
        /\ response' = [response EXCEPT ![r] = result.response]
        /\ served' = count_served(r)
        /\ posted' = count_posted(r, result)
        /\ reached' = count_reached(r, req, result)
        /\ UNCHANGED config

Health(r, gh) ==
    LET req == Request("health", 0, EmptyDict, EmptyDict)
        result == health(req, gh, config)
    IN  /\ served[r] < MaxRequests
        /\ request' = [request EXCEPT ![r] = req]
        /\ calls' = [calls EXCEPT ![r] = result.calls]
        /\ response' = [response EXCEPT ![r] = result.response]
        /\ served' = count_served(r)
        /\ posted' = count_posted(r, result)
        /\ reached' = count_reached(r, req, result)
        /\ UNCHANGED config

Next ==
    \/ \E args \in IndexArgs, repo \in RepoOutcomes, list \in ListOutcomes :
          Index(1, args, GitHub(repo, list, NotCalled, NotCalled))
    \/ \E n \in PrNumbers, args \in DetailArgs, repo \in RepoOutcomes,
          comments \in CommentsOutcomes :
          PrDetail(1, n, args, GitHub(repo, NotCalled, comments, NotCalled))
    \/ \E n \in PrNumbers, form \in ReplyForms, repo \in RepoOutcomes,
          reply \in ReplyOutcomes :
          AddReply(1, n, form, GitHub(repo, NotCalled, NotCalled, reply))
    \/ \E o \in HealthOutcomes : Health(1, GitHub(o, o, o, o))

Spec == Init /\ [][Next]_vars

\* Two runs side by side, each handling its own sequence of requests.  The
\* requests and the client's outcomes are drawn from smaller sets, the same
\* for both runs.
PairRepoOutcomes == {Returned(GoodRepo), Raised(Exc("GitHubAPIError", <<"gh: not logged in">>))}
PairListOutcomes ==
    { Returned(PyList(<<PyDict([number |-> 1, title |-> Str(<<"fix">>)])>>)),
      Raised(Exc("RuntimeError", <<"boom">>)) }
PairCommentsOutcomes ==
    { Returned(PyNone),
      Returned(PyDict([number |-> 1, comments |-> PyList(<<CommentFull, CommentBare>>)])),
      Raised(Exc("GitHubAPIError", <<"gh: not logged in">>)) }
PairIndexArgs == {EmptyDict, PyDict([state |-> Str(<<"closed">>)])}
PairDetailArgs == {EmptyDict, PyDict([include_resolved |-> Str(<<"T", "R", "U", "E">>)])}
PairReplyForms ==
    { PyDict([comment_id |-> Str(<<"c", "1">>), body |-> Str(<<" ", "a">>)]),
      PyDict([comment_id |-> Str(<<"c", "1">>), body |-> Str(<<" ">>)]) }

PairNext ==
    \E r \in Runs :
        \/ \E args \in PairIndexArgs, repo \in PairRepoOutcomes, list \in PairListOutcomes :
              Index(r, args, GitHub(repo, list, NotCalled, NotCalled))
        \/ \E args \in PairDetailArgs, repo \in PairRepoOutcomes,
              comments \in PairCommentsOutcomes :
              PrDetail(r, 1, args, GitHub(repo, NotCalled, comments, NotCalled))
        \/ \E form \in PairReplyForms, repo \in PairRepoOutcomes :
              AddReply(r, 1, form, GitHub(repo, NotCalled, NotCalled, NotCalled))
        \/ Health(r, GitHub(NotCalled, NotCalled, NotCalled, NotCalled))

PairSpec == Init /\ [][PairNext]_vars

\* ================================================================ claims
\* What the formulas read off a request and its call log.  They describe the
\* request in the claims' words and do not use the handlers' operators.
is_blank(s) == \A i \in DOMAIN s : s[i] \in {" ", "\t", "\n", "\r"}

\* comment_id missing or empty
NoCommentId(req) ==
    "comment_id" \notin DOMAIN req.form.d \/ req.form.d.comment_id.s = <<>>

\* body missing, empty or only whitespace
NoBody(req) ==
    "body" \notin DOMAIN req.form.d \/ is_blank(req.form.d.body.s)

FormInvalid(req) == NoCommentId(req) \/ NoBody(req)

\* t is s without its leading and trailing whitespace
IsStripOf(t, s) ==
    \E i \in 1..(Len(s) + 1), j \in 0..Len(s) :
        /\ t = SubSeq(s, i, j)
        /\ is_blank(SubSeq(s, 1, i - 1))
        /\ is_blank(SubSeq(s, j + 1, Len(s)))
        /\ t # <<>> => ~is_blank(<<t[1]>>) /\ ~is_blank(<<t[Len(t)]>>)

\* v is "true" in any mix of cases
IsTrueAnyCase(v) ==
    /\ Len(v.s) = 4
    /\ v.s[1] \in {"t", "T"}
    /\ v.s[2] \in {"r", "R"}
    /\ v.s[3] \in {"u", "U"}
    /\ v.s[4] \in {"e", "E"}

CallsOf(log, method) == {i \in DOMAIN log : log[i].method = method}
RaisedIn(log) == {i \in DOMAIN log : log[i].outcome.raised}
\* get_repo_info answered with a repository that has an owner and a name
RepoFound(log) ==
    /\ Len(log) >= 1
    /\ log[1].method = "get_repo_info"
    /\ ~log[1].outcome.raised
    /\ log[1].outcome.value.py = "dict"
    /\ {"owner", "name"} \subseteq DOMAIN log[1].outcome.value.d
Falsy(v) == v.py = "None" \/ (v.py = "dict" /\ DOMAIN v.d = {})
OutcomesOf(log) == [i \in DOMAIN log |-> log[i].outcome]

\* ---- C1
\* C1: an add_reply request whose comment_id is missing or empty, or whose
\* body is missing, empty or only whitespace, never calls
\* add_reply_to_comment, whatever get_repo_info returned or raised.
C1_NoReplyOnInvalidForm ==
    (request[1].route = "add_reply" /\ FormInvalid(request[1]))
        => CallsOf(calls[1], "add_reply_to_comment") = {}

\* an add_reply request with a comment_id and a body of whitespace alone was
\* handled, the repository was found, and nothing was posted
C1_Witness ==
    /\ request[1].route = "add_reply"
    /\ ~NoCommentId(request[1])
    /\ "body" \in DOMAIN request[1].form.d
    /\ request[1].form.d.body.s # <<>>
    /\ is_blank(request[1].form.d.body.s)
    /\ RepoFound(calls[1])
    /\ posted[1] = 0

\* ---- C2
\* the reply call the claim describes: made once, after get_repo_info
\* returned, with the request's pr_number, its comment_id and its stripped
\* body, and returning
ReplyPosted(req, log) ==
    /\ Len(log) = 2
    /\ log[1].method = "get_repo_info"
    /\ ~log[1].outcome.raised
    /\ ~NoCommentId(req)
    /\ ~NoBody(req)
    /\ log[2].method = "add_reply_to_comment"
    /\ log[2].args.pr_number = req.pr_number
    /\ log[2].args.comment_id = req.form.d.comment_id
    /\ IsStripOf(log[2].args.body.s, req.form.d.body.s)
    /\ ~log[2].outcome.raised

\* C2: add_reply answers {"success": True} with status 200 exactly when
\* get_repo_info returned, the form was valid and add_reply_to_comment was
\* called once with the request's pr_number, comment_id and stripped body and
\* returned; in every other case it answers success False with 400 or 500.
C2_SuccessIffPosted ==
    request[1].route = "add_reply" =>
        LET ok == response[1].status = 200 /\ response[1].data = [success |-> TRUE]
        IN  /\ ok <=> ReplyPosted(request[1], calls[1])
            /\ ~ok => /\ response[1].data.success = FALSE
                      /\ response[1].status \in {400, 500}

\* a reply was posted for a body that strip() shortens, and the value
\* add_reply_to_comment returned was not None
C2_Witness ==
    /\ request[1].route = "add_reply"
    /\ response[1].status = 200
    /\ response[1].data = [success |-> TRUE]
    /\ Len(calls[1]) = 2
    /\ calls[1][2].args.body # request[1].form.d.body
    /\ calls[1][2].outcome.value.py = "dict"

\* ---- C3
\* C3: while one request is handled each client method is called at most
\* once, and no client call follows one that raised; so one add_reply
\* request posts at most one reply.
C3_NoRetry ==
    /\ \A m \in Methods : Cardinality(CallsOf(calls[1], m)) <= 1
    /\ \A i \in RaisedIn(calls[1]) : i = Len(calls[1])
    /\ posted[1] <= served[1]

\* add_reply_to_comment raised and the handler stopped there
C3_Witness ==
    /\ request[1].route = "add_reply"
    /\ Len(calls[1]) = 2
    /\ calls[1][2].method = "add_reply_to_comment"
    /\ calls[1][2].outcome.raised
    /\ response[1].status = 500

\* ---- C4
\* every index request asks for the repository and, when that is found, for
\* the PR list; every pr_detail request asks for the repository and, when
\* that is found, for the PR's comments
CallsAfresh(r) ==
    /\ request[r].route \in {"index", "pr_detail"} =>
          /\ Len(calls[r]) >= 1
          /\ calls[r][1].method = "get_repo_info"
    /\ (request[r].route = "index" /\ RepoFound(calls[r])) =>
          /\ Len(calls[r]) = 2
          /\ calls[r][2].method = "get_my_pr_list"
    /\ (request[r].route = "pr_detail" /\ RepoFound(calls[r])) =>
          /\ Len(calls[r]) = 2
          /\ calls[r][2].method = "get_comments_for_pr"

ErrorPage(title, message) ==
    [ status |-> 500,
      template |-> "error.html",
      data |-> [error_title |-> title, error_message |-> message, config |-> config] ]

\* C5: in index and pr_detail an exception of a client call never escapes.
\* A GitHubAPIError gives the error page with status 500, the GitHub title
\* and the error's message; any other exception gives status 500, the generic
\* title and the prefixed message; neither is reported under the other's
\* title.
C5_ErrorPages ==
    request[1].route \in {"index", "pr_detail"} =>
        /\ response[1].status \in {200, 404, 500}
        /\ \A i \in RaisedIn(calls[1]) :
              LET e == calls[1][i].outcome.exc
              IN  IF e.type = "GitHubAPIError"
                  THEN response[1] = ErrorPage(TITLE_GITHUB, e.msg)
                  ELSE response[1] = ErrorPage(TITLE_GENERIC, PREFIX_GENERIC \o e.msg)
        /\ response[1].template = "error.html" =>
              /\ response[1].data.error_title = TITLE_GITHUB =>
                    \E i \in RaisedIn(calls[1]) :
                        calls[1][i].outcome.exc.type = "GitHubAPIError"
              /\ response[1].data.error_title = TITLE_GENERIC =>
                    \A i \in RaisedIn(calls[1]) :
                        calls[1][i].outcome.exc.type # "GitHubAPIError"

\* get_comments_for_pr raised GitHubAPIError in a pr_detail request
C5_Witness ==
    /\ request[1].route = "pr_detail"
    /\ Len(calls[1]) = 2
    /\ calls[1][2].outcome.raised
    /\ calls[1][2].outcome.exc.type = "GitHubAPIError"
    /\ response[1].data.error_title = TITLE_GITHUB

\* ---- C6
\* C6: pr_detail answers 404, with the not-found title and a message naming
\* the requested PR, exactly when get_repo_info and get_comments_for_pr both
\* returned and the latter returned None or an empty mapping; it renders the
\* page with status 200 only for a non-empty result; and the include_resolved
\* it passes on is true exactly when the query parameter is "true" in any mix
\* of cases.
C6_NotFound ==
    request[1].route = "pr_detail" =>
        LET log == calls[1]
            both == Len(log) = 2 /\ RaisedIn(log) = {}
            args == request[1].args.d
        IN  /\ response[1].status = 404 <=> (both /\ Falsy(log[2].outcome.value))
            /\ response[1].status = 404 =>
                  /\ response[1].template = "error.html"
                  /\ response[1].data.error_title = TITLE_NOT_FOUND
                  /\ \E k \in DOMAIN response[1].data.error_message :
                        response[1].data.error_message[k] = ToString(request[1].pr_number)
            /\ response[1].template = "pr_detail.html" <=> response[1].status = 200
            /\ response[1].status = 200 => (both /\ ~Falsy(log[2].outcome.value))
            /\ Len(log) = 2 =>
                  /\ log[2].method = "get_comments_for_pr"
                  /\ log[2].args.pr_number = request[1].pr_number
                  /\ log[2].args.include_resolved
                        <=> ( /\ "include_resolved" \in DOMAIN args
                              /\ IsTrueAnyCase(args.include_resolved) )

\* PR 2 was asked for with include_resolved=TRUE, get_comments_for_pr
\* returned an empty mapping, and the answer was 404
C6_Witness ==
    /\ request[1].route = "pr_detail"
    /\ request[1].pr_number = 2
    /\ response[1].status = 404
    /\ Len(calls[1]) = 2
    /\ calls[1][2].outcome.value = EmptyDict
    /\ calls[1][2].args.include_resolved
    /\ request[1].args.d.include_resolved = Str(<<"T", "R", "U", "E">>)

\* ---- C7
\* C7: index, pr_detail and health never call add_reply_to_comment; health
\* calls nothing and always answers {"status": "ok", "service":
\* "code-review-checker"}; over the whole run the replies posted are as many
\* as the add_reply requests that reached add_reply_to_comment.
C7_ReadOnlyRoutes ==
    /\ request[1].route \in {"index", "pr_detail", "health"} =>
          CallsOf(calls[1], "add_reply_to_comment") = {}
    /\ request[1].route = "health" =>
          /\ calls[1] = <<>>
          /\ response[1] =
                [ status |-> 200,
                  template |-> "json",
                  data |-> [status |-> "ok", service |-> "code-review-checker"] ]
    /\ posted[1] = reached[1]

\* a health request handled after a request that posted a reply
C7_Witness ==
    /\ request[1].route = "health"
    /\ served[1] = 2
    /\ posted[1] = 1
    /\ response[1].status = 200

\* ---- C8
FormError ==
    [ status |-> 400,
      template |-> "json",
      data |-> [success |-> FALSE, error |-> ERROR_FORM] ]

\* C8 as stated: add_reply answers an invalid form with status 400 and the
\* form error whatever GitHub does, never with status 500.
C8_Original ==
    (request[1].route = "add_reply" /\ FormInvalid(request[1]))
        => response[1] = FormError

\* C8, amended: add_reply answers an invalid form with status 400 and the
\* form error when get_repo_info returned a repository with owner and name,
\* and makes no further client call; when get_repo_info raised, or returned
\* no owner or name, the answer to an invalid form is success False with
\* status 500, because the form is only looked at after the repository.
C8_InvalidFormAfterRepo ==
    (request[1].route = "add_reply" /\ FormInvalid(request[1])) =>
        /\ Len(calls[1]) = 1
        /\ calls[1][1].method = "get_repo_info"
        /\ IF RepoFound(calls[1])
           THEN response[1] = FormError
           ELSE /\ response[1].status = 500
                /\ response[1].data.success = FALSE

\* a form without comment_id was answered 400 after the repository was found
C8_Witness ==
    /\ request[1].route = "add_reply"
    /\ "comment_id" \notin DOMAIN request[1].form.d
    /\ ~NoBody(request[1])
    /\ RepoFound(calls[1])
    /\ response[1] = FormError

====
